---- MODULE Spec2Model ----
(***************************************************************************)
(* A model of pyleoclim.core.surrogateseries.SurrogateSeries: the         *)
(* constructor, from_series() and from_param(), together with the         *)
(* process-wide numpy random generator they draw from; and of the         *)
(* constructor of pyleoclim.core.ensemblegeoseries.EnsembleGeoSeries.     *)
(*                                                                         *)
(* Conventions.                                                            *)
(*  - A Python value that may be None is a sequence of length at most 1:   *)
(*    None is <<>> and the value x is <<x>>.  An attribute that was never  *)
(*    assigned (self.label) is <<>> as well.                               *)
(*  - AR(1) parameters are kept in tenths: 50 is 5, 5 is 0.5.              *)
(*  - A matrix is a sequence of columns, one column per realization.       *)
(*  - last is a history variable: the most recent call, its arguments and  *)
(*    what it did (rng0 is the state of the generator when it began).     *)
(*    target_after is the argument of from_series as the call left it,    *)
(*    held_intact tells whether the list object that self.series_list     *)
(*    named before the call still has the content it had.                  *)
(*    ref is a history variable holding one earlier call.                  *)
(*  - geo is an EnsembleGeoSeries object and the constructor call that    *)
(*    made it.                                                             *)
(***************************************************************************)
EXTENDS Integers, Sequences, FiniteSets, TLC

VARIABLES
    alive,        \* TRUE once a constructor call has returned an object
    series_list,  \* self.series_list
    method,       \* self.method
    param,        \* self.param
    number,       \* self.number
    seed,         \* self.seed
    label,        \* self.label (<<>> while the attribute does not exist)
    rng,          \* state of the process-wide generator np.random
    last,         \* history: the most recent call
    ref,          \* history: one earlier successful call, kept for comparison
    geo           \* an EnsembleGeoSeries object and the call that made it

vars == <<alive, series_list, method, param, number, seed, label, rng, last, ref, geo>>

-----------------------------------------------------------------------------
(* Bounds of the model *)

MaxNumber == 2      \* number ranges over 1..MaxNumber
MaxLength == 2      \* length argument of from_param ranges over 1..MaxLength
MaxParamLen == 3    \* param lists have 0..MaxParamLen elements
RngMod == 2         \* number of states of the random generator

-----------------------------------------------------------------------------
(* Python values *)

None == <<>>
Some(x) == <<x>>
IsNone(o) == o = <<>>
Get(o) == o[1]

\* Python's  sub in s  for two strings
Contains(sub, s) ==
    \E i \in 1..(Len(s) - Len(sub) + 1) : SubSeq(s, i, i + Len(sub) - 1) = sub

\* Python's  str(x or '')  for a label that may be None
StrOrEmpty(l) == IF IsNone(l) THEN "" ELSE Get(l)

supported_surrogates == {"ar1sim", "phaseran", "uar1"}

\* outcomes of a call
Ok == "ok"
ErrTwoParams == "ValueError: 2 parameters are needed for this model"
ErrOneParam == "ValueError: 1 parameter is needed for this model"
ErrUnknownMethod == "ValueError: Unknown method"
ErrNotSeries == "TypeError: Expected pyleo.Series"
ErrUneven == "ValueError: Phase-randomization presently requires evenly-spaced series."
ErrNoTime == "ValueError: 'time' not found in settings"
ErrTimePattern == "ValueError: Unknown time pattern"
ErrPhaseranParam == "ValueError: Phase-randomization is only available in from_series()."
ErrNoLabel == "AttributeError: 'SurrogateSeries' object has no attribute 'label'"
ErrUnbound == "UnboundLocalError: y_surr"

ValueErrors ==
    {ErrTwoParams, ErrOneParam, ErrUnknownMethod, ErrUneven, ErrNoTime,
     ErrTimePattern, ErrPhaseranParam}

-----------------------------------------------------------------------------
(* Inputs *)

MethodInputs == supported_surrogates \cup {"fBm", "foo"}
LabelInputs == {None, Some("E")}
NumberInputs == 1..MaxNumber
SeedInputs == {None, Some(1)}

\* a list of n parameters, in tenths
ParamOfLen(n) == [i \in 1..n |-> 10 * (i + 1)]
ParamInputs == {None} \cup {Some(ParamOfLen(n)) : n \in 0..MaxParamLen}

\* the series_list argument: the default [] or a list of one Series
InitListInputs ==
    {<<>>,
     <<[time |-> <<1, 2>>, value |-> <<8, 9>>, label |-> Some("S"),
        auto_time_params |-> FALSE]>>}

\* the constructor inputs of the objects whose methods are then called
UseMethodInputs == supported_surrogates \cup {"fBm"}
UseParamInputs == {None, Some(ParamOfLen(2))}

-----------------------------------------------------------------------------
(* The history record *)

\* the simulator a call ran and the parameters it ran with
NoSim == [fn |-> "", tau |-> 0, sigma_2 |-> 0]
SimCall(f, t, s2) == [fn |-> f, tau |-> t, sigma_2 |-> s2]

\* the argument of from_series when no call was made
NoTarget == [is_series |-> FALSE, time |-> <<>>, value |-> <<>>, label |-> None]

NoCall ==
    [op |-> "none", outcome |-> Ok, warnings |-> 0, sim |-> NoSim,
     a_method |-> "", a_label |-> None, a_param |-> None,
     target |-> NoTarget, length |-> 0, time_pattern |-> "", settings |-> None,
     rng0 |-> 0, target_after |-> NoTarget, held_intact |-> TRUE]

-----------------------------------------------------------------------------
(* SurrogateSeries.__init__ *)

\* a check that only rejects too few parameters
InitParamCheck_TooFew(m, p) ==
    IF IsNone(p) THEN Ok
    ELSE IF Contains("ar1", m) /\ Len(Get(p)) < 2 THEN ErrTwoParams
    ELSE IF m = "phaseran" THEN Ok
    ELSE IF m \in {"fBm", "CN"} /\ Len(Get(p)) > 1 THEN ErrOneParam
    ELSE Ok

\* the check of the parameter count, by outcome
InitParamCheck(m, p) ==
    IF IsNone(p) THEN Ok
    ELSE IF Contains("ar1", m) /\ Len(Get(p)) # 2 THEN ErrTwoParams
    ELSE IF m = "phaseran" THEN Ok
    ELSE IF m \in {"fBm", "CN"} /\ Len(Get(p)) > 1 THEN ErrOneParam
    ELSE Ok

\* warnings raised by the check of the parameter count
InitWarnings(m, p) ==
    IF /\ ~IsNone(p)
       /\ ~(Contains("ar1", m) /\ Len(Get(p)) # 2)
       /\ m = "phaseran"
    THEN 1 ELSE 0

\* the display name: outcome and the value of the label attribute
InitLabel(m, l) ==
    IF IsNone(l)
    THEN IF m = "ar1sim" THEN [outcome |-> Ok, label |-> Some("AR(1) surrogates (MoM)")]
         ELSE IF m = "phaseran" THEN [outcome |-> Ok, label |-> Some("phase-randomized surrogates")]
         ELSE IF m = "uar1" THEN [outcome |-> Ok, label |-> Some("AR(1) surrogates (MLE)")]
         ELSE [outcome |-> ErrUnknownMethod, label |-> None]
    ELSE [outcome |-> Ok, label |-> None]

InitOutcome(m, l, p) ==
    IF InitParamCheck(m, p) # Ok THEN InitParamCheck(m, p)
    ELSE InitLabel(m, l).outcome

ConstructFrom(Ms, Ps, Ss, Ls) ==
    /\ ~alive
    /\ \E m \in Ms, l \in LabelInputs, p \in Ps, n \in NumberInputs, s \in Ss,
          sl \in Ls :
        LET out == InitOutcome(m, l, p) IN
        /\ last' = [NoCall EXCEPT !.op = "init", !.outcome = out,
                                  !.warnings = InitWarnings(m, p),
                                  !.a_method = m, !.a_label = l, !.a_param = p]
        /\ IF out = Ok
           THEN /\ alive' = TRUE
                /\ series_list' = sl
                /\ method' = m
                /\ param' = p
                /\ number' = n
                /\ seed' = s
                /\ label' = InitLabel(m, l).label
           ELSE UNCHANGED <<alive, series_list, method, param, number, seed, label>>
    /\ UNCHANGED <<rng, ref, geo>>

\* a constructor call with any of the inputs
Construct == ConstructFrom(MethodInputs, ParamInputs, SeedInputs, InitListInputs)

\* a constructor call with a seed, followed by repeated calls of the methods
ConstructSeeded ==
    ConstructFrom(supported_surrogates, {None}, SeedInputs \ {None}, {<<>>})

\* a constructor call that is followed by calls of the two methods
ConstructForUse == ConstructFrom(UseMethodInputs, UseParamInputs, SeedInputs, {<<>>})

\* a constructor call with or without a list of series, followed by calls
\* of the two methods
ConstructListed == ConstructFrom(supported_surrogates, {None}, {None}, InitListInputs)

-----------------------------------------------------------------------------
(* The collaborators: Series, the random generator, the simulators *)

\* Series.is_evenly_spaced(): all the time steps are equal
is_evenly_spaced(t) ==
    \A i \in 1..(Len(t) - 1), j \in 1..(Len(t) - 1) : t[i + 1] - t[i] = t[j + 1] - t[j]

\* np.random.seed(s): the generator restarts from a state fixed by s
np_random_seed(s) == s % RngMod

\* the k-th number drawn from the generator in state r (k = 0, 1, ...)
Draw(r, k) == (r + k) % RngMod

\* the state of the generator after k draws
RngAfter(r, k) == (r + k) % RngMod

\* a simulator (ar1_sim, phaseran2, uar1_sim): an L x N matrix of values
\* drawn from the generator, column after column
Simulate(r, L, N) == [j \in 1..N |-> [i \in 1..L |-> Draw(r, (j - 1) * L + (i - 1))]]

\* tsmodel.uar1_fit(value, time): the estimate (tau, sigma_2), a function of
\* the observed series
uar1_fit(value, time) == <<10 * (time[Len(time)] - time[1]), value[1]>>

\* np.tile(t, (N, 1)).T : the vector t in each of the N columns
Tile(t, N) == [j \in 1..N |-> t]

\* an assignment that fills the list object already in place
BindList_InPlace(old, s_list) == [current |-> old \o s_list, held |-> old \o s_list]

\* self.series_list = s_list: the attribute names the new list s_list, the
\* list object it named before (held by whoever read it) keeps its content
BindList(old, s_list) == [current |-> s_list, held |-> old]

\* a call that empties the list before it does its work
ListOnAbort_Cleared(sl) == <<>>

\* self.series_list after a call that raised: the assignment
\* self.series_list = s_list is the last statement of both methods
ListOnAbort(sl) == sl

-----------------------------------------------------------------------------
(* Inputs of from_series *)

\* something that is not a Series, an evenly spaced Series with a label and
\* an unevenly spaced one without
TargetInputs ==
    {NoTarget,
     [is_series |-> TRUE, time |-> <<1, 2>>, value |-> <<5, 6>>, label |-> Some("T")],
     [is_series |-> TRUE, time |-> <<1, 2, 4>>, value |-> <<5, 6, 7>>, label |-> None]}

-----------------------------------------------------------------------------
(* SurrogateSeries.from_series *)

\* if self.seed is not None: np.random.default_rng(self.seed)
\* builds a new Generator object and drops it: np.random keeps its state
SeedFromSeries(sd, r) == r

\* labels numbered from 0
FromSeriesLabel_FromZero(tl, n, i) ==
    IF n > 1 THEN StrOrEmpty(tl) \o " surr #" \o ToString(i)
    ELSE StrOrEmpty(tl) \o " surr"

\* the label of the i-th surrogate (i = 0, 1, ...)
FromSeriesLabel(tl, n, i) ==
    IF n > 1 THEN StrOrEmpty(tl) \o " surr #" \o ToString(i + 1)
    ELSE StrOrEmpty(tl) \o " surr"

\* a surrogate that is the target itself, not a copy of it
TargetAfterCopy_Alias(target, y, lab) == [target EXCEPT !.value = y, !.label = Some(lab)]

\* ts = target_series.copy(); ts.value = y; ts.label = lab: the target after
\* the assignments, which are made on the copy
TargetAfterCopy(target, y, lab) == target

\* a copy of the target with value and label replaced
Surrogate(target, y, lab) ==
    [time |-> target.time, value |-> y, label |-> Some(lab), auto_time_params |-> FALSE]

\* the list built from the matrix y_surr
FromSeriesList(target, y, n) ==
    IF n > 1
    THEN [i \in 1..Len(y) |-> Surrogate(target, y[i], FromSeriesLabel(target.label, n, i - 1))]
    ELSE <<Surrogate(target, y[1], FromSeriesLabel(target.label, n, 0))>>

\* a phaseran branch without the test of the spacing
PhaseranOutcome_NoTest(t) == Ok

\* the phaseran branch: the target must be evenly spaced
PhaseranOutcome(t) == IF is_evenly_spaced(t) THEN Ok ELSE ErrUneven

\* a uar1 branch that fits the target and keeps the old parameters
StoredParam_Kept(p, fit) == p

\* self.param = [tau, sigma_2]: the uar1 branch stores the fitted pair
StoredParam(p, fit) == Some(<<fit[1], fit[2]>>)

\* the whole call: outcome, fields and generator after it
FromSeries(m, p, n, sd, sl, r, target) ==
    LET r0 == SeedFromSeries(sd, r)
        L == Len(target.time)
        y == Simulate(r0, L, n)
        r1 == RngAfter(r0, L * n)
        fit == uar1_fit(target.value, target.time)
        \* the target once the last surrogate is made
        after == TargetAfterCopy(target, y[n], FromSeriesLabel(target.label, n, n - 1))
        fail(e) == [outcome |-> e, series_list |-> ListOnAbort(sl), param |-> p,
                    rng |-> r0, sim |-> NoSim, target_after |-> target]
    IN
    IF ~target.is_series
    THEN [outcome |-> ErrNotSeries, series_list |-> ListOnAbort(sl), param |-> p,
          rng |-> r, sim |-> NoSim, target_after |-> target]
    ELSE IF m = "ar1sim"
    THEN [outcome |-> Ok, series_list |-> FromSeriesList(target, y, n), param |-> p,
          rng |-> r1, sim |-> SimCall("ar1_sim", 0, 0), target_after |-> after]
    ELSE IF m = "phaseran"
    THEN IF PhaseranOutcome(target.time) = Ok
         THEN [outcome |-> Ok, series_list |-> FromSeriesList(target, y, n), param |-> p,
               rng |-> r1, sim |-> SimCall("phaseran2", 0, 0), target_after |-> after]
         ELSE fail(PhaseranOutcome(target.time))
    ELSE IF m = "uar1"
    THEN [outcome |-> Ok, series_list |-> FromSeriesList(target, y, n),
          param |-> StoredParam(p, fit),
          rng |-> r1, sim |-> SimCall("uar1_sim", fit[1], fit[2]), target_after |-> after]
    ELSE fail(ErrUnbound)

\* the lists after a call: the one self.series_list names and the one it
\* named before
ListsAfter(outcome, old, new) ==
    IF outcome = Ok THEN BindList(old, new) ELSE [current |-> new, held |-> new]

\* the state change of one call of from_series (the history ref apart)
FromSeriesCall(target) ==
    LET res == FromSeries(method, param, number, seed, series_list, rng, target)
        lists == ListsAfter(res.outcome, series_list, res.series_list)
    IN
    /\ series_list' = lists.current
    /\ param' = res.param
    /\ rng' = res.rng
    /\ last' = [NoCall EXCEPT !.op = "from_series", !.outcome = res.outcome,
                              !.sim = res.sim, !.target = target, !.rng0 = rng,
                              !.target_after = res.target_after,
                              !.held_intact = (lists.held = series_list)]
    /\ UNCHANGED <<alive, method, number, seed, label, geo>>

from_series ==
    /\ alive
    /\ \E target \in TargetInputs : FromSeriesCall(target)
    /\ UNCHANGED ref

\* history: the call just made succeeded and becomes the reference call
Keep == /\ last'.outcome = Ok
        /\ ref' = Some([call |-> last', series_list |-> series_list'])

from_series_keep ==
    /\ alive
    /\ \E target \in TargetInputs : FromSeriesCall(target)
    /\ Keep

-----------------------------------------------------------------------------
(* Inputs of from_param *)

LengthInputs == 1..MaxLength
TimePatternInputs == {"even", "random", "specified", "weekly"}
FromParamInputs == {None} \cup {Some(ParamOfLen(n)) : n \in 0..2}
ReproParamInputs == {Some(ParamOfLen(2))}

\* a settings dictionary: each key is absent (None) or carries a value
NoSettings == [delta_t |-> None, time |-> None]
SettingsInputs ==
    {None, Some([NoSettings EXCEPT !.delta_t = Some(2)]),
           Some([NoSettings EXCEPT !.time = Some(<<1, 3>>)])}

\* the geometry of a from_param call: a pattern with the settings and the
\* length it reads (delta_t for even, time for specified, length for even
\* and random); every length with the default step, the longest one with a
\* step of its own and with random steps; the specified pattern also with
\* settings that hold a step and no time
GeometryInputs ==
    {g \in [time_pattern : TimePatternInputs, settings : SettingsInputs,
            length : LengthInputs] :
        /\ IsNone(g.settings) \/ g.time_pattern \in {"even", "specified"}
        /\ ~IsNone(g.settings) /\ ~IsNone(Get(g.settings).delta_t)
              => g.time_pattern \in {"even", "specified"}
        /\ ~IsNone(g.settings) /\ ~IsNone(Get(g.settings).time)
              => g.time_pattern = "specified"
        /\ g.time_pattern \in {"specified", "weekly"} => g.length = 1
        /\ g.time_pattern = "random" \/ (~IsNone(g.settings) /\ g.time_pattern = "even")
              => g.length = MaxLength}

-----------------------------------------------------------------------------
(* SurrogateSeries.from_param *)

\* param = list(param) if param is not None else []
CoerceParam(p) == IF IsNone(p) THEN <<>> ELSE Get(p)

\* settings = {} if settings is None else settings.copy()
CoerceSettings(st) == IF IsNone(st) THEN NoSettings ELSE Get(st)

\* a seed that is built into a generator nobody uses, as in from_series
SeedFromParam_Dropped(sd, r) == r

\* if self.seed is not None: np.random.seed(self.seed)
SeedFromParam(sd, r) == IF IsNone(sd) THEN r ELSE np_random_seed(Get(sd))

\* a time axis that starts at 0
EvenTime_FromZero(delta_t, length) == [i \in 1..length |-> (i - 1) * delta_t]

\* np.cumsum([float(delta_t)] * length)
EvenTime(delta_t, length) == [i \in 1..length |-> i * delta_t]

\* tsmodel.random_time_index with the default exponential increments: the
\* running sum of length positive increments drawn from the generator
RECURSIVE RandomTime(_, _)
RandomTime(r, length) ==
    IF length = 0 THEN <<>>
    ELSE LET t == RandomTime(r, length - 1) IN
         Append(t, (IF length = 1 THEN 0 ELSE t[length - 1]) + 1 + Draw(r, length - 1))

\* time axes that fall back on the even pattern when no time is supplied
TimeAxes_Fallback(time_pattern, st, length, n, r) ==
    IF time_pattern = "even" \/ (time_pattern = "specified" /\ IsNone(st.time))
    THEN [outcome |-> Ok, rng |-> r,
          times |-> Tile(EvenTime(IF IsNone(st.delta_t) THEN 1 ELSE Get(st.delta_t), length), n)]
    ELSE IF time_pattern = "random"
    THEN [outcome |-> Ok, rng |-> RngAfter(r, n * length),
          times |-> [j \in 1..n |-> RandomTime(RngAfter(r, (j - 1) * length), length)]]
    ELSE IF time_pattern = "specified"
    THEN [outcome |-> Ok, rng |-> r, times |-> Tile(Get(st.time), n)]
    ELSE [outcome |-> ErrTimePattern, rng |-> r, times |-> <<>>]

\* the time axes: outcome, matrix and generator after they are built
TimeAxes(time_pattern, st, length, n, r) ==
    IF time_pattern = "even"
    THEN [outcome |-> Ok, rng |-> r,
          times |-> Tile(EvenTime(IF IsNone(st.delta_t) THEN 1 ELSE Get(st.delta_t), length), n)]
    ELSE IF time_pattern = "random"
    THEN [outcome |-> Ok, rng |-> RngAfter(r, n * length),
          times |-> [j \in 1..n |-> RandomTime(RngAfter(r, (j - 1) * length), length)]]
    ELSE IF time_pattern = "specified"
    THEN IF IsNone(st.time)
         THEN [outcome |-> ErrNoTime, rng |-> r, times |-> <<>>]
         ELSE [outcome |-> Ok, rng |-> r, times |-> Tile(Get(st.time), n)]
    ELSE [outcome |-> ErrTimePattern, rng |-> r, times |-> <<>>]

\* a dispatch that simulates for every supported method
SimulatorFor_AllSupported(m) ==
    IF m \in supported_surrogates THEN "uar1_sim" ELSE "none"

\* the branch taken on self.method: the simulator to run, an error for
\* phaseran, nothing for any other name
SimulatorFor(m) ==
    IF m \in {"uar1", "ar1sim"} THEN "uar1_sim"
    ELSE IF m = "phaseran" THEN "error"
    ELSE "none"

\* the parameters handed to the simulator
SimParam(p) == IF Len(p) < 2 THEN <<50, 5>> ELSE <<p[1], p[2]>>

\* warnings raised on the way to the simulator
FromParamWarnings(m, p) == IF m \in {"uar1", "ar1sim"} /\ Len(p) < 2 THEN 1 ELSE 0

\* labels that leave out the label of the ensemble
FromParamLabel_NoPrefix(l, i) == " surr #" \o ToString(i + 1)

\* the label of the i-th series (i = 0, 1, ...)
FromParamLabel(l, i) == StrOrEmpty(l) \o " surr #" \o ToString(i + 1)

\* the list built from the matrices times and y_surr
FromParamList(times, y, l) ==
    [i \in 1..Len(times) |->
        [time |-> times[i], value |-> y[i], label |-> Some(FromParamLabel(l, i - 1)),
         auto_time_params |-> TRUE]]

\* the whole call: outcome, fields and generator after it
\* lab is the label attribute, has_label whether it exists
FromParam(m, n, sd, lab, has_label, sl, r, p_arg, length, time_pattern, st_arg) ==
    LET p == CoerceParam(p_arg)
        st == CoerceSettings(st_arg)
        r0 == SeedFromParam(sd, r)
        ax == TimeAxes(time_pattern, st, length, n, r0)
        L == IF ax.times = <<>> THEN 0 ELSE Len(ax.times[1])
        sp == SimParam(p)
        y == Simulate(ax.rng, L, n)
        r1 == RngAfter(ax.rng, L * n)
        fail(e, rr, w, sm) ==
            [outcome |-> e, series_list |-> ListOnAbort(sl), rng |-> rr, warnings |-> w,
             sim |-> sm]
    IN
    IF ax.outcome # Ok THEN fail(ax.outcome, ax.rng, 0, NoSim)
    ELSE IF SimulatorFor(m) = "uar1_sim"
    THEN IF has_label
         THEN [outcome |-> Ok, series_list |-> FromParamList(ax.times, y, lab), rng |-> r1,
               warnings |-> FromParamWarnings(m, p), sim |-> SimCall("uar1_sim", sp[1], sp[2])]
         ELSE fail(ErrNoLabel, r1, FromParamWarnings(m, p), SimCall("uar1_sim", sp[1], sp[2]))
    ELSE IF SimulatorFor(m) = "error" THEN fail(ErrPhaseranParam, ax.rng, 0, NoSim)
    ELSE IF has_label
    THEN \* no simulator ran and y_surr is np.empty_like(times), left as allocated;
         \* not reached: __init__ gives no label to a method it does not know
         [outcome |-> Ok, series_list |-> FromParamList(ax.times, y, lab), rng |-> ax.rng,
          warnings |-> 0, sim |-> NoSim]
    ELSE fail(ErrNoLabel, ax.rng, 0, NoSim)

\* a from_param that records the parameters it simulated with
ParamAfterFromParam_Stored(field, p) == Some(SimParam(p))

\* self.param after from_param: the method rebinds its local name param
\* only and never assigns the attribute
ParamAfterFromParam(field, p) == field

\* the state change of one call of from_param (the history ref apart)
FromParamCall(p_arg, length, time_pattern, st_arg) ==
    LET res == FromParam(method, number, seed, label, ~IsNone(label), series_list, rng,
                         p_arg, length, time_pattern, st_arg)
        lists == ListsAfter(res.outcome, series_list, res.series_list)
    IN
    /\ series_list' = lists.current
    /\ param' = ParamAfterFromParam(param, CoerceParam(p_arg))
    /\ rng' = res.rng
    /\ last' = [NoCall EXCEPT !.op = "from_param", !.outcome = res.outcome,
                              !.warnings = res.warnings, !.sim = res.sim,
                              !.a_param = p_arg, !.length = length,
                              !.time_pattern = time_pattern, !.settings = st_arg,
                              !.rng0 = rng,
                              !.held_intact = (lists.held = series_list)]
    /\ UNCHANGED <<alive, method, number, seed, label, geo>>

FromParamStep(Ps) ==
    /\ alive
    /\ \E p_arg \in Ps, g \in GeometryInputs :
        FromParamCall(p_arg, g.length, g.time_pattern, g.settings)

from_param == FromParamStep(FromParamInputs) /\ UNCHANGED ref

from_param_again == FromParamStep(ReproParamInputs) /\ UNCHANGED ref

from_param_keep == FromParamStep(ReproParamInputs) /\ Keep

-----------------------------------------------------------------------------
(* EnsembleGeoSeries.__init__ *)

ErrLatMembers == "ValueError: If lat is not passed, all components must be GeoSeries objects"
ErrLonMembers == "ValueError: If lon is not passed, all components must be GeoSeries objects"
ErrIndex == "IndexError: list index out of range"

\* the members of series_list: GeoSeries with coordinates of their own, or
\* plain Series
GeoMember(la, lo) == [is_geo |-> TRUE, lat |-> la, lon |-> lo]
PlainMember == [is_geo |-> FALSE, lat |-> 0, lon |-> 0]
GeoListInputs ==
    {<<>>, <<GeoMember(10, 20)>>, <<GeoMember(10, 20), GeoMember(10, 20)>>,
     <<GeoMember(10, 20), PlainMember>>, <<PlainMember>>}

\* lat and lon: omitted, on and next to the ends of their ranges, inside
LatInputs == {None} \cup {Some(x) : x \in {-91, -90, 0, 90, 91}}
LonInputs == {None} \cup {Some(x) : x \in {-181, -180, 0, 360, 361}}

\* no object and no call yet
NoGeo ==
    [alive |-> FALSE, lat |-> None, lon |-> None, op |-> "none", outcome |-> Ok,
     a_lat |-> None, a_lon |-> None, a_list |-> <<>>]

\* all([isinstance(ts, GeoSeries) for ts in series_list])
AllGeoSeries(sl) == \A i \in 1..Len(sl) : sl[i].is_geo

\* -90 <= lat <= 90
LatInRange(x) == -90 <= x /\ x <= 90

\* -180 < lon <= 360
LonInRange(x) == -180 < x /\ x <= 360

\* the attribute after  if -90 <= lat <= 90: self.lat = lat  (<<>> while it
\* does not exist)
StoredLat(x) == IF LatInRange(x) THEN Some(x) ELSE None

\* the attribute after  if -180 < lon <= 360: self.lon = lon
StoredLon(x) == IF LonInRange(x) THEN Some(x) ELSE None

\* the else branches of the two range tests build a ValueError and drop it:
\* there is no raise
RangeOutcome(la, lo) == Ok

\* the whole constructor: outcome and the attributes lat and lon
GeoInit(sl, la, lo) ==
    IF IsNone(la)
    THEN IF ~AllGeoSeries(sl) THEN [outcome |-> ErrLatMembers, lat |-> None, lon |-> None]
         ELSE IF sl = <<>> THEN [outcome |-> ErrIndex, lat |-> None, lon |-> None]
         ELSE [outcome |-> Ok, lat |-> Some(sl[1].lat), lon |-> None]
    ELSE IF IsNone(lo)
    THEN IF ~AllGeoSeries(sl) THEN [outcome |-> ErrLonMembers, lat |-> None, lon |-> None]
         ELSE IF sl = <<>> THEN [outcome |-> ErrIndex, lat |-> None, lon |-> None]
         ELSE [outcome |-> Ok, lat |-> None, lon |-> Some(sl[1].lon)]
    ELSE [outcome |-> RangeOutcome(Get(la), Get(lo)),
          lat |-> StoredLat(Get(la)), lon |-> StoredLon(Get(lo))]

GeoConstruct ==
    /\ ~geo.alive
    /\ \E sl \in GeoListInputs, la \in LatInputs, lo \in LonInputs :
        LET res == GeoInit(sl, la, lo) IN
        geo' = [alive |-> res.outcome = Ok, lat |-> res.lat, lon |-> res.lon,
                op |-> "init", outcome |-> res.outcome,
                a_lat |-> la, a_lon |-> lo, a_list |-> sl]
    /\ UNCHANGED <<alive, series_list, method, param, number, seed, label, rng, last, ref>>

-----------------------------------------------------------------------------

Init ==
    /\ alive = FALSE
    /\ series_list = <<>>
    /\ method = ""
    /\ param = None
    /\ number = 1
    /\ seed = None
    /\ label = None
    /\ rng \in 0..(RngMod - 1)
    /\ last = NoCall
    /\ ref = None
    /\ geo = NoGeo

Next == ConstructForUse \/ from_series \/ from_param

\* the constructor alone, with all its inputs
SpecInit == Init /\ [][Construct]_vars

\* an object and the calls of its methods

Spec == Init /\ [][Next]_vars

\* a seeded object and repeated calls of its methods, one of them kept in ref
NextRepro ==
    \/ ConstructSeeded
    \/ from_series
    \/ from_series_keep
    \/ from_param_again
    \/ from_param_keep

SpecRepro == Init /\ [][NextRepro]_vars

\* an object built with or without a list of series, and the calls of its
\* methods
\* a caller that takes  held = obj.series_list  before the call: ref keeps
\* the value the held list had then
Hold == ref' = Some(series_list)

from_series_held ==
    /\ alive
    /\ \E target \in TargetInputs : FromSeriesCall(target)
    /\ Hold

from_param_held == FromParamStep(FromParamInputs) /\ Hold

NextList == ConstructListed \/ from_series_held \/ from_param_held

SpecList == Init /\ [][NextList]_vars

\* the constructor of EnsembleGeoSeries alone
SpecGeo == Init /\ [][GeoConstruct]_vars

-----------------------------------------------------------------------------
(* Properties *)

\* the text a label contributes to a derived label
LabelText(l) == IF l = None THEN "" ELSE l[1]

\* the calls compared in ref and last took the same arguments
SameFromParamArgs(a, b) ==
    /\ a.op = "from_param" /\ b.op = "from_param"
    /\ a.a_param = b.a_param /\ a.length = b.length
    /\ a.time_pattern = b.time_pattern /\ a.settings = b.settings

\* C1: a constructor call with a method name outside {ar1sim, phaseran,
\* uar1} fails with the unknown-method error, whatever the label and the
\* param; it never returns an object.
C1_UnknownMethodRejected ==
    last.op = "init" /\ last.a_method \notin {"ar1sim", "phaseran", "uar1"}
        => last.outcome = ErrUnknownMethod /\ ~alive

\* C2: a constructor call with a param and a method ar1sim or uar1 returns
\* an object only if param has exactly 2 elements; with any other length it
\* raises and no object exists.
C2_Ar1NeedsTwoParams ==
    last.op = "init" /\ last.a_param # None /\ last.a_method \in {"ar1sim", "uar1"}
        => /\ last.outcome = Ok => Len(last.a_param[1]) = 2
           /\ Len(last.a_param[1]) # 2 => last.outcome # Ok /\ ~alive

C2_Witness ==
    /\ last.op = "init" /\ last.a_method = "uar1" /\ last.a_param # None
    /\ Len(last.a_param[1]) = 3 /\ last.outcome = ErrTwoParams /\ ~alive

\* C3: after a successful from_series(target), series_list has number
\* series, each as long as the target; with number >= 2 the k-th label is
\* the target's label followed by " surr #k" and the labels are distinct,
\* with number = 1 the label is the target's label followed by " surr".
C3_FromSeriesShape ==
    last.op = "from_series" /\ last.outcome = Ok
        => /\ Len(series_list) = number
           /\ \A k \in 1..Len(series_list) :
                /\ Len(series_list[k].value) = Len(last.target.value)
                /\ Len(series_list[k].time) = Len(last.target.time)
                /\ number >= 2 => series_list[k].label =
                      <<LabelText(last.target.label) \o " surr #" \o ToString(k)>>
                /\ number = 1 => series_list[k].label =
                      <<LabelText(last.target.label) \o " surr">>
           /\ \A j, k \in 1..Len(series_list) :
                j # k => series_list[j].label # series_list[k].label

C3_Witness ==
    /\ last.op = "from_series" /\ last.outcome = Ok /\ number = 2
    /\ last.target.label = <<"T">> /\ Len(series_list) = 2
    /\ series_list[2].label = <<"T surr #2">>

\* C4: with a seed set, two from_series calls on the same target give the
\* same surrogates, whatever the generator's state before each call.
C4_SeededFromSeriesRepeats ==
    (/\ last.op = "from_series" /\ last.outcome = Ok /\ seed # None
     /\ ref # None /\ ref[1].call.op = "from_series"
     /\ ref[1].call.target = last.target)
        => series_list = ref[1].series_list

\* C5: with a seed set, two successful from_param calls with the same
\* arguments give the same times and values, whatever the generator's
\* state before each call.
C5_SeededFromParamRepeats ==
    (/\ last.op = "from_param" /\ last.outcome = Ok /\ seed # None
     /\ ref # None /\ SameFromParamArgs(ref[1].call, last))
        => series_list = ref[1].series_list

C5_Witness ==
    /\ last.op = "from_param" /\ last.outcome = Ok /\ seed # None
    /\ ref # None /\ SameFromParamArgs(ref[1].call, last)
    /\ last.time_pattern = "random"
    /\ ref[1].call.rng0 # last.rng0
    /\ series_list = ref[1].series_list

\* C6: from_series with method phaseran on an unevenly spaced Series raises
\* the configuration error and leaves series_list as it was.
C6_PhaseranUneven ==
    [][(/\ last'.op = "from_series" /\ method = "phaseran"
        /\ last'.target.is_series /\ ~is_evenly_spaced(last'.target.time))
          => last'.outcome = ErrUneven /\ series_list' = series_list]_vars

C6_Witness ==
    /\ last.op = "from_series" /\ method = "phaseran"
    /\ last.target.time = <<1, 2, 4>> /\ last.outcome = ErrUneven
    /\ series_list # <<>>

\* C7: a from_series or from_param call that raises a configuration or a
\* type error leaves series_list as it was.
C7_AbortKeepsList ==
    [][(/\ last'.op \in {"from_series", "from_param"}
        /\ last'.outcome \in ValueErrors \cup {ErrNotSeries})
          => series_list' = series_list]_vars

C7_Witness ==
    /\ last.op = "from_param" /\ last.outcome = ErrNoTime
    /\ series_list # <<>>

\* C8: from_param with method ar1sim or uar1 and fewer than 2 parameters
\* does not fail: it warns once, simulates with tau = 5 and sigma_2 = 0.5
\* and produces the series (the time axes being well specified).
C8_FewParamsProceed ==
    (/\ last.op = "from_param" /\ method \in {"ar1sim", "uar1"}
     /\ (last.a_param = None \/ Len(last.a_param[1]) < 2)
     /\ last.outcome \notin {ErrNoTime, ErrTimePattern})
        => /\ last.outcome = Ok
           /\ last.warnings = 1
           /\ last.sim = [fn |-> "uar1_sim", tau |-> 50, sigma_2 |-> 5]
           /\ Len(series_list) = number

\* C9: from_param on an ensemble whose method is phaseran raises a
\* configuration error whatever its arguments and produces no series.
C9_PhaseranFromParam ==
    [][last'.op = "from_param" /\ method = "phaseran"
          => /\ last'.outcome \in ValueErrors
             /\ last'.sim = NoSim
             /\ series_list' = series_list]_vars

C9_Witness ==
    /\ last.op = "from_param" /\ method = "phaseran"
    /\ last.time_pattern = "even" /\ last.outcome = ErrPhaseranParam

\* C10: after a successful from_param, series_list has number new series,
\* the k-th labelled with the ensemble's label followed by " surr #k".
C10_FromParamShape ==
    last.op = "from_param" /\ last.outcome = Ok
        => /\ Len(series_list) = number
           /\ label # None
           /\ \A k \in 1..Len(series_list) :
                /\ series_list[k].label = <<label[1] \o " surr #" \o ToString(k)>>
                /\ series_list[k].auto_time_params

C10_Witness ==
    /\ last.op = "from_param" /\ last.outcome = Ok /\ number = 2
    /\ Len(series_list) = 2
    /\ series_list[2].label = <<"AR(1) surrogates (MoM) surr #2">>

\* C11: after a successful constructor call the label attribute is defined:
\* the label passed by the caller or, without one, the default derived from
\* the method.
C11_LabelDefined ==
    last.op = "init" /\ last.outcome = Ok
        => /\ label # None
           /\ last.a_label # None => label = last.a_label
           /\ last.a_label = None /\ last.a_method = "ar1sim"
                => label = <<"AR(1) surrogates (MoM)">>
           /\ last.a_label = None /\ last.a_method = "phaseran"
                => label = <<"phase-randomized surrogates">>
           /\ last.a_label = None /\ last.a_method = "uar1"
                => label = <<"AR(1) surrogates (MLE)">>

\* C16: a constructor call with more than one parameter for the method fBm
\* or CN is not aborted by the check of the parameter count: the check only
\* warns.
C16_ExcessParamsWarn ==
    (/\ last.op = "init" /\ last.a_method \in {"fBm", "CN"}
     /\ last.a_param # None /\ Len(last.a_param[1]) > 1)
        => last.outcome # ErrOneParam /\ last.warnings = 1

\* C12: after a successful from_series of a uar1 ensemble the param field is
\* the 2-element list [tau, sigma_2] fitted on the target, whatever it was
\* before, and the simulator ran with exactly that pair.
C12_Uar1StoresFit ==
    (last.op = "from_series" /\ last.outcome = Ok /\ method = "uar1")
        => /\ param # None
           /\ Len(param[1]) = 2
           /\ param[1] = uar1_fit(last.target.value, last.target.time)
           /\ last.sim = SimCall("uar1_sim", param[1][1], param[1][2])

C12_Witness ==
    /\ last.op = "from_series" /\ last.outcome = Ok /\ method = "uar1"
    /\ last.target.time = <<1, 2>>
    /\ param = <<(<<10, 5>>)>>
    /\ last.sim.tau = 10 /\ last.sim.sigma_2 = 5

\* C13: a successful from_param with the pattern even, length L and step d
\* (1 without a delta_t in settings) gives each of the number series the
\* time vector whose k-th entry is k * d.
C13_EvenTimeAxis ==
    (last.op = "from_param" /\ last.outcome = Ok /\ last.time_pattern = "even")
        => LET d == IF last.settings = None \/ Get(last.settings).delta_t = None
                    THEN 1 ELSE Get(Get(last.settings).delta_t)
           IN /\ Len(series_list) = number
              /\ \A i \in 1..Len(series_list) :
                    /\ Len(series_list[i].time) = last.length
                    /\ \A k \in 1..last.length : series_list[i].time[k] = k * d
                    /\ series_list[i].time = series_list[1].time

C13_Witness ==
    /\ last.op = "from_param" /\ last.outcome = Ok /\ last.time_pattern = "even"
    /\ last.settings # None /\ Get(last.settings).delta_t = <<2>>
    /\ last.length = 2 /\ number = 2
    /\ series_list[1].time = <<2, 4>> /\ series_list[2].time = <<2, 4>>

\* C14: from_param with the pattern specified and settings that are None
\* or hold no time fails with the ValueError "'time' not found in
\* settings", whatever the method and the parameters.
C14_SpecifiedNeedsTime ==
    (/\ last.op = "from_param" /\ last.time_pattern = "specified"
     /\ (last.settings = None \/ Get(last.settings).time = None))
        => last.outcome = ErrNoTime /\ last.outcome \in ValueErrors

C14_Witness ==
    /\ last.op = "from_param" /\ last.time_pattern = "specified"
    /\ last.settings # None /\ Get(last.settings).time = None
    /\ method = "phaseran" /\ last.a_param # None
    /\ last.outcome = ErrNoTime

\* C15: a constructor call of EnsembleGeoSeries with an explicit latitude
\* outside [-90, 90] or an explicit longitude outside (-180, 360] fails,
\* and an object built from explicit coordinates stores both inside their
\* ranges.
C15_CoordinatesInRange ==
    (geo.op = "init" /\ geo.a_lat # None /\ geo.a_lon # None)
        => /\ (~LatInRange(Get(geo.a_lat)) \/ ~LonInRange(Get(geo.a_lon))) => ~geo.alive
           /\ geo.alive => /\ geo.lat # None /\ LatInRange(Get(geo.lat))
                           /\ geo.lon # None /\ LonInRange(Get(geo.lon))

\* C17: a call of from_series or from_param that fails leaves series_list
\* as it was; one that succeeds binds series_list to the number series of
\* this call alone, and the list held before the call keeps its value.
C17_ListReplacedWholesale ==
    [][last'.op \in {"from_series", "from_param"}
        => IF last'.outcome # Ok
           THEN series_list' = series_list
           ELSE /\ Len(series_list') = number
                /\ last'.held_intact
                /\ ref' = Some(series_list)
                /\ \A i \in 1..Len(series_list') :
                      IF last'.op = "from_series"
                      THEN /\ series_list'[i].time = last'.target.time
                           /\ series_list'[i].label =
                                Some(FromSeriesLabel(last'.target.label, number, i - 1))
                      ELSE /\ IF last'.time_pattern = "specified"
                              THEN series_list'[i].time = Get(Get(last'.settings).time)
                              ELSE Len(series_list'[i].time) = last'.length
                           /\ series_list'[i].label = Some(FromParamLabel(label, i - 1))]_vars

C17_Witness ==
    /\ last.op = "from_param" /\ last.outcome = Ok /\ last.held_intact
    /\ ref # None /\ Len(Get(ref)) = 1 /\ Get(ref)[1].label = <<"S">>
    /\ number = 2 /\ Len(series_list) = 2
    /\ \A i \in 1..2 : series_list[i].label # <<"S">>

\* C18: from_series of an ar1sim or phaseran ensemble and every from_param
\* leave the param field as it was, and the simulator of from_param runs
\* with the first two entries of the argument param, or with tau = 5 and
\* sigma_2 = 0.5 when the argument has fewer than two.
C18_ParamFieldFrame ==
    [][(\/ last'.op = "from_series" /\ method \in {"ar1sim", "phaseran"}
        \/ last'.op = "from_param")
        => /\ param' = param
           /\ (last'.op = "from_param" /\ last'.sim # NoSim)
                => LET a == last'.a_param IN
                   last'.sim = IF a = None \/ Len(Get(a)) < 2
                               THEN SimCall("uar1_sim", 50, 5)
                               ELSE SimCall("uar1_sim", Get(a)[1], Get(a)[2])]_vars

C18_Witness ==
    /\ last.op = "from_param" /\ last.outcome = Ok /\ last.a_param = None
    /\ param = <<(<<20, 30>>)>>
    /\ last.sim = SimCall("uar1_sim", 50, 5)

\* C19: an EnsembleGeoSeries that was built, from coordinates inside their
\* ranges or from the coordinates of its members, has both lat and lon
\* defined.
C19_LatAndLonDefined ==
    (/\ geo.alive
     /\ geo.a_lat # None => LatInRange(Get(geo.a_lat))
     /\ (geo.a_lat # None /\ geo.a_lon # None) => LonInRange(Get(geo.a_lon)))
        => geo.lat # None /\ geo.lon # None

\* C20: a successful from_series leaves the time, value and label of its
\* target as they were, and each series of the list carries the time axis
\* of the target.
C20_TargetUntouched ==
    (last.op = "from_series" /\ last.outcome = Ok)
        => /\ last.target_after = last.target
           /\ \A i \in 1..Len(series_list) :
                /\ series_list[i].time = last.target.time
                /\ Len(series_list[i].value) = Len(last.target.value)

C20_Witness ==
    /\ last.op = "from_series" /\ last.outcome = Ok /\ number = 2
    /\ last.target.label = <<"T">> /\ last.target_after.label = <<"T">>
    /\ last.target_after.value = <<5, 6>>
    /\ series_list[2].label = <<"T surr #2">>
    /\ series_list[2].time = <<1, 2>>

====
